---- MODULE Spec2Model ----
(***************************************************************************)
(* The ingestion pipeline of Script.py: load_api_key, fetch_stock_tickers, *)
(* save_to_csv and main, as one sequential state machine.                  *)
(*                                                                         *)
(* Conventions.  Python's None is the empty sequence <<>> and a value v is *)
(* the one-element sequence <<v>> wherever a name may hold either          *)
(* (api_key, data, the output file).  A string that the code searches with *)
(* `in` (a URL, the text of an exception) is a sequence of atoms, chosen   *)
(* so that the searched substrings ('apiKey=', '?', '429') never straddle  *)
(* two atoms: `sub in text` is then "some atom of text carries sub".       *)
(* current_url is a URL or <<>> (None); both are falsy exactly when empty. *)
(***************************************************************************)
EXTENDS Integers, Sequences, FiniteSets, TLC

\* ---- bounds of the model ----
MaxPages   == 2   \* the server's chain of continuation tokens has at most this many pages
MaxPageLen == 2   \* records in one page's results array
MaxCount   == 4   \* page_count is tracked exactly below this value and saturates at it

\* ---- values ----
None == <<>>
Some(v) == <<v>>

\* os.getenv('POLYGON_API_KEY'): unset, empty, or a key (one of them with the digits 429 in it)
EnvValues == {None, Some(""), Some("KEY"), Some("K429")}

\* Python truthiness of an optional string
Truthy(opt) == opt # None /\ opt[1] # ""

\* Ticker records: insertion-ordered lists of <<key, value>> pairs
RecA == << <<"ticker", "A">>, <<"name", "Agilent">> >>
RecB == << <<"ticker", "B">> >>
Records == {RecA, RecB}

RECURSIVE SeqsUpTo(_, _)
SeqsUpTo(S, n) ==
    IF n = 0 THEN {<<>>}
    ELSE LET shorter == SeqsUpTo(S, n - 1)
         IN  shorter \cup {Append(s, x) : s \in {t \in shorter : Len(t) = n - 1}, x \in S}

\* ---- URLs and exception texts as atom sequences ----
HasAtom(text, atoms) == \E i \in DOMAIN text : text[i] \in atoms

\* atoms whose text contains the digits 429
Digits429 == {"K429", "c429", "too many 429 error responses"}

\* line 31
ApiUriOf(key) ==
    << "https://api.polygon.io/v3/reference/tickers", "?",
       "market=stocks&active=true&order=asc&limit=1000&sort=ticker", "&", "apiKey=", key >>

\* next_url values the server may send
TokQuery     == << "https://api.polygon.io/v3/reference/tickers", "?", "cursor=", "c1" >>
TokBare      == << "https://api.polygon.io/v3/reference/tickers/next" >>
TokKeyed     == << "https://api.polygon.io/v3/reference/tickers", "?", "cursor=", "c1", "&", "apiKey=", "KEY" >>
TokLookalike == << "https://api.polygon.io/v3/reference/tickers", "?", "cursor=", "c1", "&", "my", "apiKey=", "v" >>
Tok429       == << "https://api.polygon.io/v3/reference/tickers", "?", "cursor=", "c429" >>
Tokens == {TokQuery, TokBare, TokKeyed, TokLookalike, Tok429}

\* number of query parameters of url that are named apiKey
CredentialParams(url) ==
    Cardinality({i \in DOMAIN url : i > 1 /\ url[i] = "apiKey=" /\ url[i - 1] \in {"?", "&"}})

VARIABLES
    pc,           \* position of main
    envKey,       \* the environment's POLYGON_API_KEY
    api_key,      \* main's api_key
    current_url,  \* fetch_stock_tickers' cursor
    all_results,  \* fetch_stock_tickers' accumulated records
    page_count,   \* fetch_stock_tickers' counter
    data,         \* what fetch_stock_tickers returned
    file,         \* the output file
    saved,        \* what save_to_csv returned, None before it is called
    \* history variables
    lastUrl,      \* URL of the most recent request
    lastKind,     \* kind of the most recent response
    retrying,     \* the next request repeats the previous one
    issued,       \* number of distinct Page Requests issued
    consumed,     \* the results fields of the pages answered with a parsed 200 body
    hardError     \* a request ended in a non-rate-limit error or a parse failure

vars == << pc, envKey, api_key, current_url, all_results, page_count, data, file, saved,
           lastUrl, lastKind, retrying, issued, consumed, hardError >>

Init ==
    /\ pc = "main"
    /\ envKey \in EnvValues
    /\ api_key = None
    /\ current_url = None
    /\ all_results = <<>>
    /\ page_count = 0
    /\ data = None
    /\ file = None
    /\ saved = None
    /\ lastUrl = None
    /\ lastKind = "none"
    /\ retrying = FALSE
    /\ issued = 0
    /\ consumed = <<>>
    /\ hardError = FALSE


\* ---- load_api_key and main's guard ----

\* lines 17-24: the key when it is truthy, None otherwise
load_api_key(env) == IF Truthy(env) THEN env ELSE None

MainProceedsAlways(key) == TRUE
\* line 148: `if api_key:`
MainProceeds(key) == Truthy(key)

\* lines 145-148, 159-160
LoadKey ==
    /\ pc = "main"
    /\ api_key' = load_api_key(envKey)
    /\ pc' = IF MainProceeds(load_api_key(envKey)) THEN "fetch" ELSE "exit"
    /\ UNCHANGED << envKey, current_url, all_results, page_count, data, file, saved,
                    lastUrl, lastKind, retrying, issued, consumed, hardError >>

\* ---- fetch_stock_tickers ----

\* the text of the key inside an f-string (None prints as "None")
KeyText(key) == IF key = None THEN "None" ELSE key[1]

API_URI(key) == ApiUriOf(KeyText(key))

\* lines 30-38
FetchInit ==
    /\ pc = "fetch"
    /\ all_results' = <<>>
    /\ current_url' = API_URI(api_key)
    /\ page_count' = 0
    /\ pc' = "loop"
    /\ UNCHANGED << envKey, api_key, data, file, saved,
                    lastUrl, lastKind, retrying, issued, consumed, hardError >>

\* What requests.get, raise_for_status and response.json can give for one request.
\* results and next_url are the fields of a parsed body: None when the field is
\* missing, Some(value) otherwise.
OkBodies(mayContinue) ==
    [ kind : {"ok"},
      results : {None} \cup {Some(rs) : rs \in SeqsUpTo(Records, MaxPageLen)},
      next_url : {None, Some(<<>>)} \cup (IF mayContinue THEN {Some(t) : t \in Tokens} ELSE {}) ]

\* "429": status 429.  "http_error": another 4xx/5xx status.  "conn_error",
\* "timeout", "retry_error": requests.get raised.  "bad_json_req": the body does not
\* parse and the exception is a RequestException (requests >= 2.27).
\* "bad_json_plain": it is a json.JSONDecodeError only (older requests).
FailureKinds == {"429", "http_error", "conn_error", "timeout", "retry_error",
                 "bad_json_req", "bad_json_plain"}

Failures == [ kind : FailureKinds, results : {None}, next_url : {None} ]

Responses(mayContinue) == OkBodies(mayContinue) \cup Failures

\* the kinds the inner handler of line 79 catches
RequestExceptions == {"http_error", "conn_error", "timeout", "retry_error", "bad_json_req"}

\* the kinds by which the server or the transport signals throttling
Throttled(kind) == kind \in {"429", "retry_error"}

\* str(e) of the exception raised for a request to url
ErrorText(kind, url) ==
    CASE kind = "http_error"   -> << "500 Server Error: Internal Server Error for url: " >> \o url
      [] kind = "conn_error"   -> << "Max retries exceeded with url: " >> \o url
      [] kind = "timeout"      -> << "Read timed out." >>
      [] kind = "retry_error"  -> << "Max retries exceeded with url: " >> \o url
                                    \o << "too many 429 error responses" >>
      [] kind = "bad_json_req" -> << "Expecting value: line 1 column 1 (char 0)" >>
      [] OTHER                 -> << >>

\* line 80: "429" in str(e)
IsRateLimitText(text) == HasAtom(text, Digits429)

RetryUrlRestart(url, key) == API_URI(key)
\* lines 48-51 and 80-83: `continue` leaves current_url as it is
RetryUrl(url, key) == url

ExtendReplace(all, page) == page
\* line 59: all_results.extend(data['results'])
Extend(all, page) == all \o page

\* line 58: the records a parsed body contributes
PageRecords(body) ==
    IF body.results # None /\ body.results[1] # <<>> THEN body.results[1] ELSE <<>>

\* lines 63-76: the cursor after a parsed body
NextRequestUrl(body, key) ==
    IF body.next_url # None /\ body.next_url[1] # <<>>
    THEN LET next_url == body.next_url[1]
             separator == IF HasAtom(next_url, {"?"}) THEN "&" ELSE "?"
         IN  IF ~HasAtom(next_url, {"apiKey="})
             THEN next_url \o << separator, "apiKey=", KeyText(key) >>
             ELSE next_url
    ELSE None

\* line 41 (the counter is exact below MaxCount and saturates there)
Bump(n) == IF n < MaxCount THEN n + 1 ELSE n

\* lines 40-86, 97-102: one iteration of the while loop for the response resp
FetchPageWith(resp) ==
    /\ page_count' = Bump(page_count)
    /\ lastUrl' = current_url
    /\ lastKind' = resp.kind
    /\ issued' = IF retrying THEN issued ELSE issued + 1
    /\ IF resp.kind = "429"
       THEN \* lines 48-51
            /\ pc' = "sleep60"
            /\ current_url' = RetryUrl(current_url, api_key)
            /\ retrying' = TRUE
            /\ UNCHANGED << all_results, data, consumed, hardError >>
       ELSE IF resp.kind = "ok"
       THEN \* lines 55-77
            /\ all_results' = Extend(all_results, PageRecords(resp))
            /\ current_url' = NextRequestUrl(resp, api_key)
            /\ consumed' = Append(consumed, resp.results)
            /\ pc' = "loop"
            /\ retrying' = FALSE
            /\ UNCHANGED << data, hardError >>
       ELSE IF resp.kind \in RequestExceptions
       THEN IF IsRateLimitText(ErrorText(resp.kind, current_url))
            THEN \* lines 80-83
                 /\ pc' = "sleep60"
                 /\ current_url' = RetryUrl(current_url, api_key)
                 /\ retrying' = TRUE
                 /\ hardError' = (hardError \/ ~Throttled(resp.kind))
                 /\ UNCHANGED << all_results, data, consumed >>
            ELSE \* lines 84-86
                 /\ pc' = "return"
                 /\ retrying' = FALSE
                 /\ hardError' = TRUE
                 /\ UNCHANGED << current_url, all_results, data, consumed >>
       ELSE \* lines 100-102
            /\ pc' = "fetched"
            /\ data' = None
            /\ retrying' = FALSE
            /\ hardError' = TRUE
            /\ UNCHANGED << current_url, all_results, consumed >>
    /\ UNCHANGED << envKey, api_key, file, saved >>

\* the chain of continuation tokens is finite: the page that is the MaxPages-th
\* distinct one carries no token
MayContinue == (IF retrying THEN issued ELSE issued + 1) < MaxPages

FetchThrottled ==
    /\ pc = "loop"
    /\ current_url # None
    /\ \E resp \in Responses(MayContinue) : Throttled(resp.kind) /\ FetchPageWith(resp)

FetchAnswered ==
    /\ pc = "loop"
    /\ current_url # None
    /\ \E resp \in Responses(MayContinue) : ~Throttled(resp.kind) /\ FetchPageWith(resp)

\* lines 50-51, 82-83: time.sleep(60); continue
Wake ==
    /\ pc = "sleep60"
    /\ pc' = "loop"
    /\ UNCHANGED << envKey, api_key, current_url, all_results, page_count, data, file, saved,
                    lastUrl, lastKind, retrying, issued, consumed, hardError >>

\* lines 88-95, reached when the loop condition fails or after the break of line 86
FetchReturn ==
    /\ \/ pc = "loop" /\ current_url = None
       \/ pc = "return"
    /\ data' = Some([results |-> all_results, status |-> "OK", count |-> Len(all_results)])
    /\ pc' = "fetched"
    /\ UNCHANGED << envKey, api_key, current_url, all_results, page_count, file, saved,
                    lastUrl, lastKind, retrying, issued, consumed, hardError >>


\* ---- save_to_csv ----

Range(f) == {f[i] : i \in DOMAIN f}

\* dict.keys() of a record, in insertion order
Keys(rec) == [i \in DOMAIN rec |-> rec[i][1]]

\* csv.DictWriter's rowdict.get(key, restval) with the default restval ''
Get(rec, key) ==
    IF \E i \in DOMAIN rec : rec[i][1] = key
    THEN rec[CHOOSE i \in DOMAIN rec : rec[i][1] = key][2]
    ELSE ""

\* csv.DictWriter with the default extrasaction='raise': writerow raises ValueError
\* for a dict with a key that is not in fieldnames
RaisesOnExtras(fieldnames, rec) == \E i \in DOMAIN rec : rec[i][1] \notin Range(fieldnames)

\* the row writerow writes for a record
RowOf(fieldnames, rec) == [i \in DOMAIN fieldnames |-> Get(rec, fieldnames[i])]

\* lines 104-139: the value returned and the output file afterwards.  The file is
\* opened for writing (created or truncated) before the records are looked at; an
\* exception inside the with block closes it with what was written so far.
save_to_csv(d, old) ==
    IF d = None
    THEN [ret |-> FALSE, file |-> old]                                   \* lines 108-110
    ELSE LET results == d[1].results
         IN  IF results = <<>>
             THEN [ret |-> FALSE, file |-> Some([header |-> <<>>, rows |-> <<>>])]  \* lines 117, 133-135
             ELSE LET fieldnames == Keys(results[1])                     \* line 120
                      bad == {i \in DOMAIN results : RaisesOnExtras(fieldnames, results[i])}
                      stop == IF bad = {} THEN Len(results) + 1
                              ELSE CHOOSE i \in bad : \A j \in bad : i <= j
                      rows == [i \in 1..(stop - 1) |-> RowOf(fieldnames, results[i])]
                  IN  [ret |-> (bad = {}),                               \* lines 132, 137-139
                       file |-> Some([header |-> fieldnames, rows |-> rows])]

\* ---- main, after the fetch ----

\* lines 154-156
SaveToCsv ==
    /\ pc = "fetched"
    /\ data # None
    /\ LET r == save_to_csv(data, file)
       IN  /\ saved' = Some(r.ret)
           /\ file' = r.file
    /\ pc' = "exit"
    /\ UNCHANGED << envKey, api_key, current_url, all_results, page_count, data,
                    lastUrl, lastKind, retrying, issued, consumed, hardError >>

\* lines 157-158
FetchFailed ==
    /\ pc = "fetched"
    /\ data = None
    /\ pc' = "exit"
    /\ UNCHANGED << envKey, api_key, current_url, all_results, page_count, data, file, saved,
                    lastUrl, lastKind, retrying, issued, consumed, hardError >>

Next ==
    \/ LoadKey
    \/ FetchInit
    \/ FetchThrottled
    \/ FetchAnswered
    \/ Wake
    \/ FetchReturn
    \/ SaveToCsv
    \/ FetchFailed

Spec == Init /\ [][Next]_vars

\* The program is sequential and keeps running while it has a step to take; every
\* request that is repeated is in the end answered with something else than a
\* throttling signal.
LiveSpec == Init /\ [][Next]_vars /\ WF_vars(Next) /\ SF_vars(FetchAnswered)


\* ======================= properties =======================

\* the run of fetch_stock_tickers is over
FetchOver == pc \in {"fetched", "exit"}

\* a non-stuttering step taken here is one iteration of the while loop
AtRequest == pc = "loop" /\ current_url # None

\* C1: all-or-nothing.  Once a request has ended in a non-rate-limit transport/HTTP
\* error or in a parse failure, fetch_stock_tickers returns None rather than a dict,
\* save_to_csv is never called and no output file exists.
C1_AllOrNothing ==
    hardError => /\ (FetchOver => data = None)
                 /\ saved = None
                 /\ file = None

\* C2: retry on throttling keeps the cursor and the records.  An iteration answered
\* with status 429 leaves current_url, all_results and the pages consumed as they
\* were and goes to the 60 second sleep; the sleep changes nothing and returns to the
\* loop; the request issued after it is for the URL of the request that was throttled.
C2_RetryKeepsCursorAndRecords ==
    [][ /\ (AtRequest /\ lastKind' = "429" /\ page_count' # page_count)
            => /\ pc' = "sleep60"
               /\ current_url' = current_url
               /\ all_results' = all_results
               /\ consumed' = consumed
        /\ (pc = "sleep60")
            => /\ pc' = "loop"
               /\ current_url' = current_url
               /\ all_results' = all_results
        /\ (AtRequest /\ lastKind = "429" /\ lastUrl' # lastUrl)
            => FALSE ]_vars

\* C2 witness: the second page was answered with 429 while records of the first
\* page were already accumulated.
C2_Witness ==
    pc = "sleep60" /\ lastKind = "429" /\ issued = 2 /\ all_results # <<>>

\* C3: save_to_csv called with a Result Set of zero records returns False and
\* leaves no file at the output path.
C3_EmptyWritesNothing ==
    (saved # None /\ data # None /\ data[1].results = <<>>)
        => saved = Some(FALSE) /\ file = None

\* C4: for a non-empty Result Set save_to_csv returns True and the file holds the
\* keys of the first record as header and one row per record, in order, with an
\* empty field for a missing key and without the fields the header does not name.
C4_OneRowPerRecord ==
    (saved # None /\ data # None /\ data[1].results # <<>>)
        => LET results == data[1].results
               header == Keys(results[1])
           IN  /\ saved = Some(TRUE)
               /\ file = Some([header |-> header,
                               rows |-> [i \in DOMAIN results |-> RowOf(header, results[i])]])

\* the results arrays of the pages, concatenated in page order (a missing results
\* field counts as an empty array)
RECURSIVE ConcatPages(_)
ConcatPages(pages) ==
    IF pages = <<>> THEN <<>>
    ELSE (IF Head(pages) = None THEN <<>> ELSE Head(pages)[1]) \o ConcatPages(Tail(pages))

RECURSIVE SumPageLens(_)
SumPageLens(pages) ==
    IF pages = <<>> THEN 0
    ELSE (IF Head(pages) = None THEN 0 ELSE Len(Head(pages)[1])) + SumPageLens(Tail(pages))

\* C5: accumulation is exact and ordered.  The accumulated records, and the Result
\* Set a run returns, are the concatenation in page order of the results arrays of
\* the pages consumed; their number is the sum of the lengths of those arrays.
C5_AccumulationExact ==
    /\ all_results = ConcatPages(consumed)
    /\ Len(all_results) = SumPageLens(consumed)
    /\ data # None => /\ data[1].results = ConcatPages(consumed)
                      /\ data[1].count = SumPageLens(consumed)

\* C5 witness: a finished run that consumed a page of two records and then a page of
\* one record, and handed the three records to save_to_csv.
C5_Witness ==
    /\ pc = "exit"
    /\ consumed = << Some(<<RecA, RecB>>), Some(<<RecB>>) >>
    /\ saved # None

\* C6: the URL of every request carries the credential parameter exactly once.
C6_CredentialExactlyOnce ==
    current_url # None => CredentialParams(current_url) = 1

\* C7: a 429 answer sends the fetcher to the sleep and back to the same request, and
\* the run of fetch_stock_tickers ends when every repeated request is eventually
\* answered with something else than 429 and the chain of tokens is finite.
C7_RetryThenTermination ==
    /\ [][ (AtRequest /\ lastKind' = "429" /\ page_count' # page_count) => pc' = "sleep60" ]_vars
    /\ [][ pc = "sleep60" => pc' = "loop" /\ current_url' = current_url ]_vars
    /\ <>FetchOver

\* C8: no network before the credential.  A request, a fetch or a call of
\* save_to_csv happens only with the truthy key of the environment loaded, and a
\* run without one issues no request and writes no file.
C8_NoNetworkBeforeCredential ==
    /\ (issued > 0 \/ page_count > 0 \/ lastKind # "none" \/ current_url # None
            \/ data # None \/ saved # None \/ file # None
            \/ pc \in {"fetch", "loop", "sleep60", "return", "fetched"})
        => Truthy(api_key) /\ api_key = envKey
    /\ ~Truthy(envKey) => /\ issued = 0
                          /\ pc \in {"main", "exit"}
                          /\ saved = None
                          /\ file = None

\* C8 witness: a finished run whose environment holds an empty key.
C8_Witness ==
    pc = "exit" /\ envKey = Some("") /\ api_key = None

\* C9: the page number of the messages is the number of distinct Page Requests
\* issued (stated where page_count is tracked exactly).
C9_PageCountCountsPages ==
    page_count < MaxCount => page_count = issued

\* C10: only throttling is retried.  The fetcher sleeps for a retry only after the
\* server or transport signalled throttling, and after such a signal it stays on the
\* same request.
C10_OnlyThrottlingRetried ==
    /\ pc = "sleep60" => Throttled(lastKind)
    /\ Throttled(lastKind) => pc \in {"sleep60", "loop"} /\ current_url = lastUrl

====
